---- MODULE Spec2Model ----
(***************************************************************************)
(* The CTFE machine of librustc_mir/const_eval/machine.rs: the hooks the   *)
(* generic interpreter engine calls on CompileTimeInterpreter.  Every hook *)
(* is an operator computed as the code computes it; an action applies one  *)
(* hook to the state and records the call and its result in `last`.  The   *)
(* engine then takes the result (Resume) before it calls the next hook.    *)
(***************************************************************************)
EXTENDS Naturals, Sequences, FiniteSets

VARIABLES
  steps_remaining,     \* CompileTimeInterpreter.steps_remaining
  const_eval_limit,    \* the limit the machine was constructed with
  history,             \* results of the before_terminator calls so far, in order
  can_access_statics,  \* MemoryExtra.can_access_statics
  cache,               \* the query system's results of const_eval_raw, by GlobalId
  places,              \* contents of the current frame's return destinations
  cur_block,           \* the basic block at which the current frame executes
  locals,              \* what the current frame's locals hold, by operand
  last,                \* the hook call the engine has just made, with its result
  effects,             \* engine operations the last hook call requested, in order
  sites,               \* per GlobalId, what the call sites of one run asked of the query system
  alloc_map,           \* Memory.alloc_map: the allocations of machine memory, by AllocId
  mir                  \* the basic blocks of the Mir the lowering pass is given

vars == <<steps_remaining, const_eval_limit, history, can_access_statics,
          cache, places, cur_block, locals, last, effects, sites, alloc_map, mir>>
machine == <<steps_remaining, const_eval_limit, history>>
engine == <<cache, places, cur_block, locals>>

\* ---------------------------------------------------------------- bounds
MaxLimit == 9    \* largest step limit a machine is constructed with
MaxCalls == 12   \* before_terminator calls made on one machine
MaxAlloc == 5    \* allocation ids 1..MaxAlloc

\* ---------------------------------------------------------------- results
\* InterpResult<'tcx>: Ok(()), Err(e); Abort is a panic of the compiler itself
\* (assert!, assert_eq!, expect, bug!), which returns nothing to the caller.
Ok == [tag |-> "Ok"]
Err(e) == [tag |-> "Err", err |-> e]
Abort(why) == [tag |-> "Abort", why |-> why]

StepLimitReached == [kind |-> "ResourceExhaustion", info |-> "StepLimitReached"]
WriteToReadOnly(alloc_id) == [kind |-> "UndefinedBehavior", info |-> "WriteToReadOnly", alloc_id |-> alloc_id]
ModifiedGlobal == [kind |-> "MachineStop", info |-> "ModifiedGlobal"]
ConstAccessesStatic == [kind |-> "MachineStop", info |-> "ConstAccessesStatic"]

NoCall == [op |-> "none"]
Idle == last = NoCall

\* ---------------------------------------------------------------- step budget
\* CompileTimeInterpreter::new
new(limit) == limit

\* before_terminator on a machine with `steps` steps remaining: the new value of
\* steps_remaining and the result.
\* (mutants: the error raised again at zero; the error raised one step early)
before_terminator_rethrow(steps) ==
  IF steps = 0 THEN [steps |-> steps, result |-> Err(StepLimitReached)]
  ELSE LET s == steps - 1 IN
       IF s = 0 THEN [steps |-> s, result |-> Err(StepLimitReached)]
       ELSE [steps |-> s, result |-> Ok]

before_terminator_early(steps) ==
  IF steps = 0 THEN [steps |-> steps, result |-> Ok]
  ELSE IF steps = 1 THEN [steps |-> 0, result |-> Err(StepLimitReached)]
  ELSE LET s == steps - 1 IN
       IF s = 1 THEN [steps |-> 0, result |-> Err(StepLimitReached)]
       ELSE [steps |-> s, result |-> Ok]

\* (mutant: no test for zero before the decrement, which then wraps around)
before_terminator_unchecked(steps) ==
  LET s == (steps + MaxLimit) % (MaxLimit + 1) IN
  IF s = 0 THEN [steps |-> s, result |-> Err(StepLimitReached)]
  ELSE [steps |-> s, result |-> Ok]

before_terminator(steps) ==
  IF steps = 0 THEN [steps |-> steps, result |-> Ok]
  ELSE LET s == steps - 1 IN
       IF s = 0 THEN [steps |-> s, result |-> Err(StepLimitReached)]
       ELSE [steps |-> s, result |-> Ok]

BeforeTerminator ==
  /\ Idle
  /\ Len(history) < MaxCalls
  /\ LET r == before_terminator(steps_remaining) IN
       /\ steps_remaining' = r.steps
       /\ history' = Append(history, r.result)
       /\ last' = [op |-> "before_terminator", result |-> r.result]
  /\ effects' = <<>>
  /\ UNCHANGED <<mir, const_eval_limit, can_access_statics, engine, sites, alloc_map>>

\* ---------------------------------------------------------------- global access guard
AllocIds == 1..MaxAlloc
Mutabilities == {"Not", "Mut"}
NoneV == [some |-> FALSE]
SomeV(v) == [some |-> TRUE, val |-> v]
StaticDefIds == {NoneV, SomeV("FOO"), SomeV("BAR")}

\* (mutants: the configuration consulted before the kind of access; the static
\* test made before the configuration is consulted)
before_access_global_config_first(memory_extra, alloc_id, allocation, static_def_id, is_write) ==
  IF memory_extra.can_access_statics /\ allocation.mutability # "Not" THEN Ok
  ELSE IF is_write THEN
    IF allocation.mutability = "Not" THEN Err(WriteToReadOnly(alloc_id))
    ELSE Err(ModifiedGlobal)
  ELSE
    IF memory_extra.can_access_statics THEN Ok
    ELSE IF static_def_id.some THEN Err(ConstAccessesStatic)
    ELSE IF allocation.mutability # "Not" THEN Abort("assert_eq!(allocation.mutability, Mutability::Not)")
    ELSE Ok

before_access_global_static_first(memory_extra, alloc_id, allocation, static_def_id, is_write) ==
  IF is_write THEN
    IF allocation.mutability = "Not" THEN Err(WriteToReadOnly(alloc_id))
    ELSE Err(ModifiedGlobal)
  ELSE
    IF static_def_id.some THEN Err(ConstAccessesStatic)
    ELSE IF memory_extra.can_access_statics THEN Ok
    ELSE IF allocation.mutability # "Not" THEN Abort("assert_eq!(allocation.mutability, Mutability::Not)")
    ELSE Ok

\* (mutant: the read of an anonymous global let through without the assertion)
before_access_global_unasserted(memory_extra, alloc_id, allocation, static_def_id, is_write) ==
  IF is_write THEN
    IF allocation.mutability = "Not" THEN Err(WriteToReadOnly(alloc_id))
    ELSE Err(ModifiedGlobal)
  ELSE
    IF memory_extra.can_access_statics THEN Ok
    ELSE IF static_def_id.some THEN Err(ConstAccessesStatic)
    ELSE Ok

before_access_global(memory_extra, alloc_id, allocation, static_def_id, is_write) ==
  IF is_write THEN
    IF allocation.mutability = "Not" THEN Err(WriteToReadOnly(alloc_id))
    ELSE Err(ModifiedGlobal)
  ELSE
    IF memory_extra.can_access_statics THEN Ok
    ELSE IF static_def_id.some THEN Err(ConstAccessesStatic)
    ELSE IF allocation.mutability # "Not" THEN Abort("assert_eq!(allocation.mutability, Mutability::Not)")
    ELSE Ok

BeforeAccessGlobal ==
  /\ Idle
  /\ \E alloc_id \in AllocIds, m \in Mutabilities, static_def_id \in StaticDefIds, is_write \in BOOLEAN :
       LET allocation == [mutability |-> m]
           memory_extra == [can_access_statics |-> can_access_statics] IN
       last' = [op |-> "before_access_global", alloc_id |-> alloc_id, allocation |-> allocation,
                static_def_id |-> static_def_id, is_write |-> is_write,
                result |-> before_access_global(memory_extra, alloc_id, allocation, static_def_id, is_write)]
  /\ effects' = <<>>
  /\ UNCHANGED <<mir, machine, can_access_statics, engine, sites, alloc_map>>

\* Machine memory: FxHashMap<AllocId, (MemoryKind<!>, Allocation)>, as a function
\* that gives NoneV for the keys the map does not hold.
Allocations == {[mutability |-> m] : m \in Mutabilities}
NoAllocations == [a \in AllocIds |-> NoneV]

\* ---------------------------------------------------------------- the allocation map adapter
\* impl AllocMap<K, V> for FxHashMap<K, V>.  Each operation gives its result and
\* the map it leaves; get_or and get_mut_or also give how often they invoked the
\* vacant callback, whose outcome is `vacant`.
contains_key(map, k) == map[k].some
insert(map, k, v) == [result |-> map[k], map |-> [map EXCEPT ![k] = SomeV(v)]]
remove(map, k) == [result |-> map[k], map |-> [map EXCEPT ![k] = NoneV]]

\* (mutant: a read of an absent key fills the map as get_mut_or does)
get_or_fills(map, k, vacant) ==
  IF map[k].some THEN [result |-> [tag |-> "Ok", val |-> map[k].val], map |-> map, invoked |-> 0]
  ELSE IF vacant.tag = "Err" THEN [result |-> vacant, map |-> map, invoked |-> 1]
  ELSE [result |-> [tag |-> "Ok", val |-> vacant.val],
        map |-> [map EXCEPT ![k] = SomeV(vacant.val)], invoked |-> 1]

get_or(map, k, vacant) ==
  IF map[k].some THEN [result |-> [tag |-> "Ok", val |-> map[k].val], map |-> map, invoked |-> 0]
  ELSE IF vacant.tag = "Err" THEN [result |-> vacant, map |-> map, invoked |-> 1]
  ELSE [result |-> Abort("The CTFE machine shouldn't ever need to extend the alloc_map when reading"),
        map |-> map, invoked |-> 1]

get_mut_or(map, k, vacant) ==
  IF map[k].some THEN [result |-> [tag |-> "Ok", val |-> map[k].val], map |-> map, invoked |-> 0]
  ELSE IF vacant.tag = "Err" THEN [result |-> vacant, map |-> map, invoked |-> 1]
  ELSE [result |-> [tag |-> "Ok", val |-> vacant.val],
        map |-> [map EXCEPT ![k] = SomeV(vacant.val)], invoked |-> 1]

\* What the vacant callback of a lookup gives: an allocation, or its error.
Vacants ==
  {[tag |-> "Ok", val |-> a] : a \in Allocations}
    \cup {Err([kind |-> "UndefinedBehavior", info |-> "PointerUseAfterFree"])}

\* ---------------------------------------------------------------- the compilation context
\* Results that carry a value: InterpResult<'tcx, T>.
OkV(v) == [tag |-> "Ok", val |-> v]

\* The functions of the crate under evaluation (tcx).  An instance is an
\* InstanceDef: an Item, or compiler-generated glue for a DefId.
DefIds == {"core::panicking::panic", "std::panicking::begin_panic",
           "const_fn", "other_const_fn", "tracked_const_fn",
           "extern_fn", "tracked_fn", "broken_fn"}
Item(def_id) == [kind |-> "Item", def_id |-> def_id]
ReifyShim(def_id) == [kind |-> "ReifyShim", def_id |-> def_id]
Instances ==
  {[def |-> Item(d)] : d \in DefIds \ {"broken_fn"}}
    \cup {[def |-> ReifyShim(d)] : d \in {"core::panicking::panic", "extern_fn", "tracked_fn", "broken_fn"}}

\* tcx.lang_items().panic_fn() and .begin_panic_fn()
panic_fn == SomeV("core::panicking::panic")
begin_panic_fn == SomeV("std::panicking::begin_panic")
\* tcx.is_const_fn_raw(def_id)
is_const_fn_raw(def_id) == def_id \in {"const_fn", "other_const_fn", "tracked_const_fn"}
\* instance.def.requires_caller_location(tcx): the callee is #[track_caller]
requires_caller_location(def) ==
  def.def_id \in {"core::panicking::panic", "tracked_const_fn", "tracked_fn"}
\* tcx.def_path_str(did) and the Display of an instance
def_path_str(did) == <<"path", did>>
display(instance) == <<"instance", instance.def.kind, instance.def.def_id>>

\* Operands of a call: a zero-sized unit value, or a &'static str pointing at
\* the memory of StrMemory, or a reference that cannot be read.
Unit == [layout |-> [is_zst |-> TRUE], ptr |-> NoneV]
Ref(p) == [layout |-> [is_zst |-> FALSE], ptr |-> SomeV(p)]
Pointers == {"alloc1", "alloc2", "dangling"}
StrMemory == [p \in {"alloc1", "alloc2"} |-> IF p = "alloc1" THEN "oops" ELSE "boom"]
OpTys == {Unit} \cup {Ref(p) : p \in Pointers}

MaxArgs == 2     \* arguments of a call
ArgLists == UNION {[1..n -> OpTys] : n \in 0..MaxArgs}

\* Return destinations and successor blocks of the calling frame.
Dests == {"_1", "_2"}
Blocks == {"bb1", "bb2"}
Rets == {NoneV} \cup {SomeV([dest |-> "_1", block |-> "bb1"]), SomeV([dest |-> "_2", block |-> "bb2"])}
Values == {"v1", "v2"}

\* ---------------------------------------------------------------- the engine's operations
\* What the machine asks of the engine; each takes the engine state
\* e = [cache, places, cur_block] and gives the result and the new state.
NeedsRfc(text, name) == [kind |-> "MachineStop", info |-> "NeedsRfc", text |-> text, name |-> name]
Unsupported(text, name) == [kind |-> "Unsupported", info |-> "Unsupported", text |-> text, name |-> name]
NoMirFor(did) == [kind |-> "Unsupported", info |-> "NoMirFor", did |-> did]
Panic(msg, loc) == [kind |-> "MachineStop", info |-> "Panic", msg |-> msg,
                    file |-> loc.file, line |-> loc.line, col |-> loc.col]
EngineError(what) == [kind |-> "UndefinedBehavior", info |-> what]

GlobalId(instance) == [instance |-> instance, promoted |-> NoneV]
GlobalIds == {GlobalId(i) : i \in Instances}

\* const_eval_raw(gid): the query system evaluates a key once and hands out the
\* stored result afterwards; `computed` is what evaluating it now would give.
const_eval_raw(e, gid, computed) ==
  LET r == IF e.cache[gid].some THEN e.cache[gid].val ELSE computed IN
  [result |-> r, e |-> [e EXCEPT !.cache[gid] = SomeV(r)]]

\* copy_op(src, dest)
copy_op(e, value, dest, copy_ok) ==
  IF copy_ok THEN [result |-> Ok, e |-> [e EXCEPT !.places[dest] = value]]
  ELSE [result |-> Err(EngineError("copy_op")), e |-> e]

\* return_to_block(target): go to the block, or Unreachable when there is none
return_to_block(e, target) ==
  IF target.some THEN [result |-> Ok, e |-> [e EXCEPT !.cur_block = target.val]]
  ELSE [result |-> Err(EngineError("Unreachable")), e |-> e]

\* load_mir(instance.def, None)
load_mir(def) ==
  IF def.def_id = "extern_fn" THEN Err(NoMirFor(def.def_id))
  ELSE IF def.def_id = "broken_fn" THEN Err(EngineError("TypeckError"))
  ELSE OkV([body_of |-> def])

\* deref_operand(op) and read_str(place)
deref_operand(op) ==
  IF op.ptr.some THEN OkV(op.ptr.val) ELSE Err(EngineError("deref_operand"))
read_str(place) ==
  IF place \in DOMAIN StrMemory THEN OkV(StrMemory[place]) ELSE Err(EngineError("read_str"))

\* find_closest_untracked_caller_location() and location_triple_for_span(span)
find_closest_untracked_caller_location(e) == <<"span", e.cur_block>>
location_triple_for_span(span) ==
  [file |-> "lib.rs", line |-> IF span[2] = "bb0" THEN 10 ELSE IF span[2] = "bb1" THEN 20 ELSE 30,
   col |-> 5]

\* ---------------------------------------------------------------- the call router
\* A step of a hook: its result, the engine state it leaves, the engine
\* operations it requested and, when hook_panic_fn was consulted, its result.
Step(result, e, fx) == [result |-> result, e |-> e, effects |-> fx, hook |-> NoneV]
Hooked(result, e, hooked) == [result |-> result, e |-> e, effects |-> <<>>, hook |-> SomeV(hooked)]
IsErr(r) == r.tag = "Err"

\* The early returns of try_eval_const_fn_call: what may be memoized.
\* (mutants: the arguments not looked at; #[track_caller] not looked at)
memoizable_any_args(instance, ret, args) ==
  /\ ~requires_caller_location(instance.def)
  /\ ret.some

memoizable_tracked(instance, ret, args) ==
  /\ ~(\E i \in DOMAIN args : ~args[i].layout.is_zst)
  /\ ret.some

memoizable(instance, ret, args) ==
  /\ ~requires_caller_location(instance.def)
  /\ ~(\E i \in DOMAIN args : ~args[i].layout.is_zst)
  /\ ret.some

\* The rest of try_eval_const_fn_call: evaluate through the query system, copy
\* the result to the destination, go to the successor block.  env holds what
\* the engine's operations answer during this call.
\* (mutant: control resumed at the successor before the result is copied)
eval_memoized_return_first(e, instance, ret, env) ==
  LET dest == ret.val.dest
      gid == GlobalId(instance)
      place == const_eval_raw(e, gid, env.computed)
      fx1 == <<[op |-> "const_eval_raw", gid |-> gid]>>
  IN
  IF IsErr(place.result) THEN Step(place.result, place.e, fx1)
  ELSE
    LET target == IF ret.some THEN SomeV(ret.val.block) ELSE NoneV
        returned == return_to_block(place.e, target)
        fx2 == Append(fx1, [op |-> "return_to_block", target |-> target])
    IN
    IF IsErr(returned.result) THEN Step(returned.result, returned.e, fx2)
    ELSE
      LET copied == copy_op(returned.e, place.result.val, dest, env.copy_ok)
          fx3 == Append(fx2, [op |-> "copy_op", src |-> place.result.val, dest |-> dest])
      IN
      IF IsErr(copied.result) THEN Step(copied.result, copied.e, fx3)
      ELSE Step(OkV(TRUE), copied.e, fx3)

\* (mutant: the call evaluated afresh, the stored result not consulted)
eval_memoized_fresh(e, instance, ret, env) ==
  LET dest == ret.val.dest
      gid == GlobalId(instance)
      place == [result |-> env.computed, e |-> [e EXCEPT !.cache[gid] = SomeV(env.computed)]]
      fx1 == <<[op |-> "const_eval_raw", gid |-> gid]>>
  IN
  IF IsErr(place.result) THEN Step(place.result, place.e, fx1)
  ELSE
    LET copied == copy_op(place.e, place.result.val, dest, env.copy_ok)
        fx2 == Append(fx1, [op |-> "copy_op", src |-> place.result.val, dest |-> dest])
    IN
    IF IsErr(copied.result) THEN Step(copied.result, copied.e, fx2)
    ELSE
      LET target == IF ret.some THEN SomeV(ret.val.block) ELSE NoneV
          returned == return_to_block(copied.e, target)
          fx3 == Append(fx2, [op |-> "return_to_block", target |-> target])
      IN
      IF IsErr(returned.result) THEN Step(returned.result, returned.e, fx3)
      ELSE Step(OkV(TRUE), returned.e, fx3)

eval_memoized(e, instance, ret, env) ==
  LET dest == ret.val.dest
      gid == GlobalId(instance)
      place == const_eval_raw(e, gid, env.computed)
      fx1 == <<[op |-> "const_eval_raw", gid |-> gid]>>
  IN
  IF IsErr(place.result) THEN Step(place.result, place.e, fx1)
  ELSE
    LET copied == copy_op(place.e, place.result.val, dest, env.copy_ok)
        fx2 == Append(fx1, [op |-> "copy_op", src |-> place.result.val, dest |-> dest])
    IN
    IF IsErr(copied.result) THEN Step(copied.result, copied.e, fx2)
    ELSE
      LET target == IF ret.some THEN SomeV(ret.val.block) ELSE NoneV
          returned == return_to_block(copied.e, target)
          fx3 == Append(fx2, [op |-> "return_to_block", target |-> target])
      IN
      IF IsErr(returned.result) THEN Step(returned.result, returned.e, fx3)
      ELSE Step(OkV(TRUE), returned.e, fx3)

\* try_eval_const_fn_call(instance, ret, args)
try_eval_const_fn_call(e, instance, ret, args, env) ==
  IF ~memoizable(instance, ret, args) THEN Step(OkV(FALSE), e, <<>>)
  ELSE eval_memoized(e, instance, ret, env)

\* hook_panic_fn(instance, args); Symbol::intern keeps the characters of the string.
\* (mutant: begin_panic_fn not recognized)
hook_panic_fn_panic_only(e, instance, args) ==
  LET def_id == instance.def.def_id IN
  IF SomeV(def_id) = panic_fn THEN
    IF Len(args) # 1 THEN Abort("assert!(args.len() == 1)")
    ELSE
      LET msg_place == deref_operand(args[1]) IN
      IF IsErr(msg_place) THEN msg_place
      ELSE
        LET msg == read_str(msg_place.val) IN
        IF IsErr(msg) THEN msg
        ELSE
          LET span == find_closest_untracked_caller_location(e) IN
          Err(Panic(msg.val, location_triple_for_span(span)))
  ELSE Ok

hook_panic_fn(e, instance, args) ==
  LET def_id == instance.def.def_id IN
  IF SomeV(def_id) = panic_fn \/ SomeV(def_id) = begin_panic_fn THEN
    IF Len(args) # 1 THEN Abort("assert!(args.len() == 1)")
    ELSE
      LET msg_place == deref_operand(args[1]) IN
      IF IsErr(msg_place) THEN msg_place
      ELSE
        LET msg == read_str(msg_place.val) IN
        IF IsErr(msg) THEN msg
        ELSE
          LET span == find_closest_untracked_caller_location(e) IN
          Err(Panic(msg.val, location_triple_for_span(span)))
  ELSE Ok

\* throw_unsup_format!("calling non-const function `{}`", instance)
\* (mutant: the rejection raised as the machine's NeedsRfc error)
non_const_rejection_needs_rfc(instance) ==
  Err(NeedsRfc("calling non-const function", display(instance)))

non_const_rejection(instance) ==
  Err(Unsupported("calling non-const function", display(instance)))

\* The tail of find_mir_or_eval_fn: "This is a const fn. Call it."
\* (mutant: NoMirFor handed on like every other failure of load_mir)
resolve_body_unchanged(e, instance, fx) ==
  LET loaded == load_mir(instance.def)
      fx1 == Append(fx, [op |-> "load_mir", def |-> instance.def])
  IN
  IF ~IsErr(loaded) THEN Step(OkV(SomeV(loaded.val)), e, fx1)
  ELSE Step(loaded, e, fx1)

resolve_body(e, instance, fx) ==
  LET loaded == load_mir(instance.def)
      fx1 == Append(fx, [op |-> "load_mir", def |-> instance.def])
  IN
  IF ~IsErr(loaded) THEN Step(OkV(SomeV(loaded.val)), e, fx1)
  ELSE IF loaded.err.info = "NoMirFor"
    THEN Step(Err(NeedsRfc("calling extern function", def_path_str(loaded.err.did))), e, fx1)
  ELSE Step(loaded, e, fx1)

\* find_mir_or_eval_fn(ecx, instance, args, ret, _unwind)
\* (mutant: a non-const Item that is no panic entry goes on to body resolution)
find_mir_or_eval_fn_fallthrough(e, instance, args, ret, env) ==
  IF instance.def.kind = "Item" THEN
    LET def_id == instance.def.def_id IN
    IF is_const_fn_raw(def_id) THEN
      LET tried == try_eval_const_fn_call(e, instance, ret, args, env) IN
      IF IsErr(tried.result) THEN tried
      ELSE IF tried.result.val THEN Step(OkV(NoneV), tried.e, tried.effects)
      ELSE resolve_body(tried.e, instance, tried.effects)
    ELSE
      LET hooked == hook_panic_fn(e, instance, args) IN
      IF hooked # Ok THEN Hooked(hooked, e, hooked)
      ELSE [resolve_body(e, instance, <<>>) EXCEPT !.hook = SomeV(hooked)]
  ELSE resolve_body(e, instance, <<>>)

find_mir_or_eval_fn(e, instance, args, ret, env) ==
  IF instance.def.kind = "Item" THEN
    LET def_id == instance.def.def_id IN
    IF is_const_fn_raw(def_id) THEN
      LET tried == try_eval_const_fn_call(e, instance, ret, args, env) IN
      IF IsErr(tried.result) THEN tried
      ELSE IF tried.result.val THEN Step(OkV(NoneV), tried.e, tried.effects)
      ELSE resolve_body(tried.e, instance, tried.effects)
    ELSE
      LET hooked == hook_panic_fn(e, instance, args) IN
      IF hooked # Ok THEN Hooked(hooked, e, hooked)
      ELSE Hooked(non_const_rejection(instance), e, hooked)
  ELSE resolve_body(e, instance, <<>>)

Computed == {OkV(v) : v \in Values} \cup {Err(EngineError("const_eval_raw"))}
Envs == [computed : Computed, copy_ok : BOOLEAN]

\* The engine calls find_mir_or_eval_fn with a callee, arguments, a return
\* destination and an environment drawn from the given sets.
Calls(instances, arglists, rets, envs) ==
  /\ Idle
  /\ \E instance \in instances, args \in arglists, ret \in rets, env \in envs :
       LET e == [cache |-> cache, places |-> places, cur_block |-> cur_block]
           r == find_mir_or_eval_fn(e, instance, args, ret, env)
       IN
       /\ cache' = r.e.cache
       /\ places' = r.e.places
       /\ cur_block' = r.e.cur_block
       /\ effects' = r.effects
       /\ last' = [op |-> "find_mir_or_eval_fn", instance |-> instance, args |-> args,
                   ret |-> ret, pre |-> e, hook |-> r.hook, result |-> r.result]
  /\ UNCHANGED <<mir, machine, can_access_statics, locals, sites, alloc_map>>

FindMirOrEvalFn == Calls(Instances, ArgLists, Rets, Envs)

\* Call sites of memoizable const fns in one run: the callee is a const fn that
\* needs no caller location, every argument is zero-sized and there is a return
\* destination.  sites counts, per GlobalId, the requests made to const_eval_raw,
\* the requests the query system had to evaluate (no stored result), and the
\* values copied to return destinations.
MaxSites == 2    \* call sites of one function in one run
NoSite == [requests |-> 0, evaluations |-> 0, copied |-> {}]
MemoFns == {i \in Instances : i.def.kind = "Item" /\ is_const_fn_raw(i.def.def_id)
                                /\ ~requires_caller_location(i.def)}
ZstArgLists == {args \in ArgLists : \A i \in DOMAIN args : args[i].layout.is_zst}
Count(fx, op) == Cardinality({i \in DOMAIN fx : fx[i].op = op})
Copied(fx) == {fx[i].src : i \in {j \in DOMAIN fx : fx[j].op = "copy_op"}}

CallSite ==
  /\ Idle
  /\ \E instance \in MemoFns, args \in ZstArgLists, ret \in Rets \ {NoneV}, env \in Envs :
       LET e == [cache |-> cache, places |-> places, cur_block |-> cur_block]
           r == find_mir_or_eval_fn(e, instance, args, ret, env)
           gid == GlobalId(instance)
           n == Count(r.effects, "const_eval_raw")
       IN
       /\ sites[gid].requests < MaxSites
       /\ cache' = r.e.cache
       /\ places' = r.e.places
       /\ cur_block' = r.e.cur_block
       /\ effects' = r.effects
       /\ last' = [op |-> "find_mir_or_eval_fn", instance |-> instance, args |-> args,
                   ret |-> ret, pre |-> e, hook |-> r.hook, result |-> r.result]
       /\ sites' = [sites EXCEPT ![gid] =
                     [requests |-> @.requests + n,
                      evaluations |-> @.evaluations + (IF e.cache[gid].some THEN 0 ELSE n),
                      copied |-> @.copied \cup Copied(r.effects)]]
  /\ UNCHANGED <<mir, machine, can_access_statics, locals, alloc_map>>

\* ---------------------------------------------------------------- the intrinsic dispatcher
\* Intrinsics are instances of their own kind; tcx.item_name gives their name.
IntrinsicNames == {"size_of", "ctpop", "atomic_load", "volatile_store"}
Intrinsic(def_id) == [kind |-> "Intrinsic", def_id |-> def_id]
Intrinsics == {[def |-> Intrinsic(n)] : n \in IntrinsicNames}
item_name(def_id) == <<"name", def_id>>

\* emulate_intrinsic(instance, args, ret): the engine's shared emulation.  It
\* knows some intrinsics; for those it writes the value to the destination and
\* goes to the successor block, or fails; for the others, and for a call
\* without a return destination, it reports the call as not handled.
Emulated == {"size_of", "ctpop"}
emulate_intrinsic(e, instance, args, ret, env) ==
  IF instance.def.def_id \notin Emulated \/ ~ret.some THEN [result |-> OkV(FALSE), e |-> e]
  ELSE IF IsErr(env.computed) THEN [result |-> Err(EngineError("emulate_intrinsic")), e |-> e]
  ELSE
    LET written == copy_op(e, env.computed.val, ret.val.dest, env.copy_ok) IN
    IF IsErr(written.result) THEN written
    ELSE
      LET returned == return_to_block(written.e, SomeV(ret.val.block)) IN
      IF IsErr(returned.result) THEN returned
      ELSE [result |-> OkV(TRUE), e |-> returned.e]

\* call_intrinsic(ecx, instance, args, ret, _unwind)
\* (mutant: an intrinsic that was not handled passes as done)
call_intrinsic_lenient(e, instance, args, ret, env) ==
  LET emulated == emulate_intrinsic(e, instance, args, ret, env) IN
  IF IsErr(emulated.result) THEN [result |-> emulated.result, e |-> emulated.e, emulated |-> emulated.result]
  ELSE [result |-> Ok, e |-> emulated.e, emulated |-> emulated.result]

call_intrinsic(e, instance, args, ret, env) ==
  LET emulated == emulate_intrinsic(e, instance, args, ret, env) IN
  IF IsErr(emulated.result) THEN [result |-> emulated.result, e |-> emulated.e, emulated |-> emulated.result]
  ELSE IF emulated.result.val THEN [result |-> Ok, e |-> emulated.e, emulated |-> emulated.result]
  ELSE
    LET intrinsic_name == item_name(instance.def.def_id) IN
    [result |-> Err(NeedsRfc("calling intrinsic", intrinsic_name)), e |-> emulated.e,
     emulated |-> emulated.result]

IntrinsicCalls(instances, arglists, rets, envs) ==
  /\ Idle
  /\ \E instance \in instances, args \in arglists, ret \in rets, env \in envs :
       LET e == [cache |-> cache, places |-> places, cur_block |-> cur_block]
           r == call_intrinsic(e, instance, args, ret, env)
       IN
       /\ cache' = r.e.cache
       /\ places' = r.e.places
       /\ cur_block' = r.e.cur_block
       /\ last' = [op |-> "call_intrinsic", instance |-> instance, args |-> args,
                   ret |-> ret, pre |-> e, emulated |-> r.emulated, result |-> r.result]
  /\ effects' = <<>>
  /\ UNCHANGED <<mir, machine, can_access_statics, locals, sites, alloc_map>>

CallIntrinsic == IntrinsicCalls(Intrinsics, ArgLists, Rets, Envs)

\* ---------------------------------------------------------------- pointer and heap restrictions
\* Operands of a pointer operation: pointers and integers.
PtrBinOps == {"Add", "Sub", "Offset", "Eq", "Lt"}
ImmTys == {[ptr |-> SomeV(p)] : p \in Pointers} \cup {[ptr |-> NoneV]}

\* ptr_to_int(_mem, _ptr)
ptr_to_int(mem, ptr) == Err(NeedsRfc("pointer-to-integer cast", NoneV))

\* binary_ptr_op(_ecx, _bin_op, _left, _right)
\* (mutant: comparing a pointer with itself allowed)
binary_ptr_op_compares(ecx, bin_op, left, right) ==
  IF bin_op = "Eq" /\ left = right /\ left.ptr.some THEN OkV(TRUE)
  ELSE Err(NeedsRfc("pointer arithmetic or comparison", NoneV))

binary_ptr_op(ecx, bin_op, left, right) ==
  Err(NeedsRfc("pointer arithmetic or comparison", NoneV))

\* box_alloc(_ecx, _dest): the result and the context it leaves
\* (mutant: the rejected allocation charged as a step)
box_alloc_charged(ecx, dest) ==
  [result |-> Err(NeedsRfc("heap allocations via box keyword", NoneV)),
   ecx |-> [ecx EXCEPT !.steps_remaining = IF @ > 0 THEN @ - 1 ELSE @]]

box_alloc(ecx, dest) ==
  [result |-> Err(NeedsRfc("heap allocations via box keyword", NoneV)), ecx |-> ecx]

\* The machine and its memory, as a hook sees them.
Ecx ==
  [steps_remaining |-> steps_remaining, can_access_statics |-> can_access_statics,
   alloc_map |-> alloc_map, cache |-> cache, places |-> places, cur_block |-> cur_block]

PtrToInt ==
  /\ Idle
  /\ \E ptr \in Pointers :
       last' = [op |-> "ptr_to_int", ptr |-> ptr, pre |-> Ecx,
                result |-> ptr_to_int(alloc_map, ptr)]
  /\ effects' = <<>>
  /\ UNCHANGED <<mir, machine, can_access_statics, engine, sites, alloc_map>>

BinaryPtrOp ==
  /\ Idle
  /\ \E bin_op \in PtrBinOps, left \in ImmTys, right \in ImmTys :
       last' = [op |-> "binary_ptr_op", bin_op |-> bin_op, left |-> left, right |-> right,
                pre |-> Ecx, result |-> binary_ptr_op(Ecx, bin_op, left, right)]
  /\ effects' = <<>>
  /\ UNCHANGED <<mir, machine, can_access_statics, engine, sites, alloc_map>>

BoxAlloc ==
  /\ Idle
  /\ \E dest \in Dests :
       LET r == box_alloc(Ecx, dest) IN
       /\ last' = [op |-> "box_alloc", dest |-> dest, pre |-> Ecx, result |-> r.result]
       /\ steps_remaining' = r.ecx.steps_remaining
       /\ alloc_map' = r.ecx.alloc_map
       /\ cache' = r.ecx.cache
       /\ places' = r.ecx.places
       /\ cur_block' = r.ecx.cur_block
  /\ effects' = <<>>
  /\ UNCHANGED <<mir, const_eval_limit, history, can_access_statics, locals, sites>>

\* ---------------------------------------------------------------- the allocation map: actions
Insert ==
  /\ Idle
  /\ \E k \in AllocIds, v \in Allocations :
       LET r == insert(alloc_map, k, v) IN
       /\ alloc_map' = r.map
       /\ last' = [op |-> "insert", k |-> k, v |-> v, pre |-> alloc_map, result |-> r.result]
  /\ effects' = <<>>
  /\ UNCHANGED <<mir, machine, can_access_statics, engine, sites>>

Remove ==
  /\ Idle
  /\ \E k \in AllocIds :
       LET r == remove(alloc_map, k) IN
       /\ contains_key(alloc_map, k)
       /\ alloc_map' = r.map
       /\ last' = [op |-> "remove", k |-> k, pre |-> alloc_map, result |-> r.result]
  /\ effects' = <<>>
  /\ UNCHANGED <<mir, machine, can_access_statics, engine, sites>>

GetOr ==
  /\ Idle
  /\ \E k \in AllocIds, vacant \in Vacants :
       LET r == get_or(alloc_map, k, vacant) IN
       /\ alloc_map' = r.map
       /\ last' = [op |-> "get_or", k |-> k, vacant |-> vacant, pre |-> alloc_map,
                   invoked |-> r.invoked, result |-> r.result]
  /\ effects' = <<>>
  /\ UNCHANGED <<mir, machine, can_access_statics, engine, sites>>

GetMutOr ==
  /\ Idle
  /\ \E k \in AllocIds, vacant \in Vacants :
       LET r == get_mut_or(alloc_map, k, vacant) IN
       /\ alloc_map' = r.map
       /\ last' = [op |-> "get_mut_or", k |-> k, vacant |-> vacant, pre |-> alloc_map,
                   invoked |-> r.invoked, result |-> r.result]
  /\ effects' = <<>>
  /\ UNCHANGED <<mir, machine, can_access_statics, engine, sites>>

\* ---------------------------------------------------------------- the assertion materializer
\* AssertKind<O>: the message of a failed Assert terminator.
BoundsCheck(len, index) == [kind |-> "BoundsCheck", len |-> len, index |-> index]
Overflow(op) == [kind |-> "Overflow", op |-> op]
OverflowNeg == [kind |-> "OverflowNeg"]
DivisionByZero == [kind |-> "DivisionByZero"]
RemainderByZero == [kind |-> "RemainderByZero"]
ResumedAfterReturn(generator_kind) == [kind |-> "ResumedAfterReturn", generator_kind |-> generator_kind]
ResumedAfterPanic(generator_kind) == [kind |-> "ResumedAfterPanic", generator_kind |-> generator_kind]
AssertFailure(err) == [kind |-> "MachineStop", info |-> "AssertFailure", assert |-> err]

\* Operands name locals of the frame.  A local is dead, holds a value that
\* cannot be read as an immediate, holds uninitialized bytes, holds a pointer,
\* or holds an integer of the machine's usize.
Operands == {"_3", "_4"}
Dead == [state |-> "dead"]
Unreadable == [state |-> "unreadable"]
Uninit == [state |-> "uninit"]
PointerValue == [state |-> "pointer"]
Int(n) == [state |-> "int", bits |-> n]
LocalStates == {Dead, Unreadable, Uninit, PointerValue} \cup {Int(n) : n \in {0, 10, 15}}
BinOps == {"Add", "Sub", "Mul"}
GeneratorKinds == {"Gen", "Async"}
AssertMessages ==
  {BoundsCheck(l, i) : l \in Operands, i \in Operands}
    \cup {Overflow(op) : op \in BinOps}
    \cup {OverflowNeg, DivisionByZero, RemainderByZero}
    \cup {ResumedAfterReturn(k) : k \in GeneratorKinds}
    \cup {ResumedAfterPanic(k) : k \in GeneratorKinds}

\* eval_operand(op, None), read_immediate(op), to_scalar(), to_machine_usize(ecx)
eval_operand(frame, op) ==
  IF frame[op] = Dead THEN Err(EngineError("DeadLocal")) ELSE OkV(frame[op])
read_immediate(opty) ==
  IF opty = Unreadable THEN Err(EngineError("read_immediate")) ELSE OkV(opty)
to_scalar(imm) ==
  IF imm = Uninit THEN Err(EngineError("InvalidUndefBytes")) ELSE OkV(imm)
to_machine_usize(scalar) ==
  IF scalar.state = "int" THEN OkV(scalar.bits) ELSE Err(EngineError("ReadPointerAsBytes"))

\* ecx.read_immediate(ecx.eval_operand(op, None)?).expect(what).to_scalar()?.to_machine_usize(&*ecx)?
\* (mutant: every failure on the way to the usize is an abort)
eval_to_usize_all_fatal(frame, op, what) ==
  LET opty == eval_operand(frame, op) IN
  IF IsErr(opty) THEN Abort(what)
  ELSE
    LET imm == read_immediate(opty.val) IN
    IF IsErr(imm) THEN Abort(what)
    ELSE
      LET scalar == to_scalar(imm.val) IN
      IF IsErr(scalar) THEN Abort(what)
      ELSE
        LET n == to_machine_usize(scalar.val) IN
        IF IsErr(n) THEN Abort(what) ELSE n

eval_to_usize(frame, op, what) ==
  LET opty == eval_operand(frame, op) IN
  IF IsErr(opty) THEN opty
  ELSE
    LET imm == read_immediate(opty.val) IN
    IF IsErr(imm) THEN Abort(what)
    ELSE
      LET scalar == to_scalar(imm.val) IN
      IF IsErr(scalar) THEN scalar
      ELSE to_machine_usize(scalar.val)

\* assert_panic(ecx, msg, _unwind)
\* (mutant: len and index exchanged)
assert_panic_swapped(frame, msg) ==
  IF msg.kind = "BoundsCheck" THEN
    LET len == eval_to_usize(frame, msg.len, "can't eval len") IN
    IF len.tag # "Ok" THEN len
    ELSE
      LET index == eval_to_usize(frame, msg.index, "can't eval index") IN
      IF index.tag # "Ok" THEN index
      ELSE Err(AssertFailure(BoundsCheck(index.val, len.val)))
  ELSE Err(AssertFailure(msg))

assert_panic(frame, msg) ==
  IF msg.kind = "BoundsCheck" THEN
    LET len == eval_to_usize(frame, msg.len, "can't eval len") IN
    IF len.tag # "Ok" THEN len
    ELSE
      LET index == eval_to_usize(frame, msg.index, "can't eval index") IN
      IF index.tag # "Ok" THEN index
      ELSE Err(AssertFailure(BoundsCheck(len.val, index.val)))
  ELSE IF msg.kind = "Overflow" THEN Err(AssertFailure(Overflow(msg.op)))
  ELSE IF msg.kind = "OverflowNeg" THEN Err(AssertFailure(OverflowNeg))
  ELSE IF msg.kind = "DivisionByZero" THEN Err(AssertFailure(DivisionByZero))
  ELSE IF msg.kind = "RemainderByZero" THEN Err(AssertFailure(RemainderByZero))
  ELSE IF msg.kind = "ResumedAfterReturn" THEN Err(AssertFailure(ResumedAfterReturn(msg.generator_kind)))
  ELSE Err(AssertFailure(ResumedAfterPanic(msg.generator_kind)))

AssertPanic ==
  /\ Idle
  /\ \E msg \in AssertMessages :
       last' = [op |-> "assert_panic", msg |-> msg, result |-> assert_panic(locals, msg)]
  /\ effects' = <<>>
  /\ UNCHANGED <<mir, machine, can_access_statics, engine, sites, alloc_map>>

\* ---------------------------------------------------------------- frame and allocation hooks
\* init_frame_extra(_ecx, frame): the frame as it came, and the context
Frames == {[locals |-> l] : l \in {[o \in Operands |-> Dead], [o \in Operands |-> Int(0)]}}
init_frame_extra(ecx, frame) == [result |-> OkV(frame), ecx |-> ecx]

\* init_allocation_extra(_memory_extra, _id, alloc, _kind): the allocation as it
\* came, with the unit tag
MemoryKinds == {NoneV, SomeV("Stack"), SomeV("Vtable"), SomeV("CallerLocation")}
NoTag == <<>>
init_allocation_extra(memory_extra, id, alloc, kind) == <<alloc, NoTag>>

InitFrameExtra ==
  /\ Idle
  /\ \E frame \in Frames :
       LET r == init_frame_extra(Ecx, frame) IN
       /\ last' = [op |-> "init_frame_extra", frame |-> frame, pre |-> Ecx, result |-> r.result]
       /\ steps_remaining' = r.ecx.steps_remaining
       /\ alloc_map' = r.ecx.alloc_map
       /\ cache' = r.ecx.cache
       /\ places' = r.ecx.places
       /\ cur_block' = r.ecx.cur_block
  /\ effects' = <<>>
  /\ UNCHANGED <<mir, const_eval_limit, history, can_access_statics, locals, sites>>

InitAllocationExtra ==
  /\ Idle
  /\ \E id \in AllocIds, alloc \in Allocations, kind \in MemoryKinds :
       last' = [op |-> "init_allocation_extra", id |-> id, alloc |-> alloc, kind |-> kind,
                pre |-> Ecx,
                result |-> init_allocation_extra([can_access_statics |-> can_access_statics],
                                                 id, alloc, kind)]
  /\ effects' = <<>>
  /\ UNCHANGED <<mir, machine, can_access_statics, engine, sites, alloc_map>>

\* ---------------------------------------------------------------- the intrinsic lowering pass
\* transform/lower_intrinsics.rs.  A Mir is its sequence of basic blocks; a
\* block is its statements and its terminator; BasicBlock::new(i) is the
\* position i of the block.
MaxBlocks == 2   \* basic blocks of a Mir

\* Operands, function types, literals (rustc::mir::repr)
Consume(lvalue) == [operand |-> "Consume", lvalue |-> lvalue]
Constant(span, ty, literal) == [operand |-> "Constant", span |-> span, ty |-> ty, literal |-> literal]
TyBareFn(abi, output) == [sty |-> "TyBareFn", abi |-> abi, output |-> output]
LiteralItem(def_id, substs) == [literal |-> "Item", def_id |-> def_id, substs |-> substs]

\* Statements, rvalues and terminators
Assign(span, lvalue, rvalue) == [kind |-> "Assign", span |-> span, lvalue |-> lvalue, rvalue |-> rvalue]
Cast(kind, operand, ty) == [rvalue |-> "Cast", kind |-> kind, operand |-> operand, ty |-> ty]
Use(operand) == [rvalue |-> "Use", operand |-> operand]
SizeOf(ty, operand) == [rvalue |-> "SizeOf", ty |-> ty, operand |-> operand]
Goto(target) == [term |-> "Goto", target |-> target]
Return == [term |-> "Return"]
CallData(func, args, destination) == [func |-> func, args |-> args, destination |-> destination]
Call(data, targets) == [term |-> "Call", data |-> data, targets |-> targets]

\* is_intrinsic_call(call_data)
is_intrinsic_call(call_data) ==
  IF call_data.func.operand = "Constant" THEN
    call_data.func.ty.sty = "TyBareFn" /\ call_data.func.ty.abi = "RustIntrinsic"
  ELSE FALSE

\* tcx.mk_nil(), tcx.mk_static_str()
mk_nil == "()"
mk_static_str == "&'static str"

\* The statement lower_intrinsic_in_basic_block pushes for the intrinsic `name`
\* (lines 91-177): Some(statement), None when no branch of the chain takes the
\* name, or the abort of an assertion.
lowered_statement(name, span, call_data, substs, ret_ty) ==
  IF name = "transmute" THEN
    IF Len(call_data.args) # 1 THEN Abort("assert_eq!(call_data.args.len(), 1)")
    ELSE OkV(SomeV(Assign(span, call_data.destination,
                          Cast("Transmute", call_data.args[1], ret_ty))))
  ELSE IF name = "move_val_init" THEN
    IF Len(call_data.args) # 2 THEN Abort("assert_eq!(call_data.args.len(), 2)")
    ELSE IF call_data.args[1].operand = "Consume" THEN
      OkV(SomeV(Assign(span, call_data.args[1].lvalue, Use(call_data.args[2]))))
    ELSE Abort("destination argument not lvalue?")
  ELSE IF name = "size_of" THEN
    OkV(SomeV(Assign(span, call_data.destination, SizeOf(substs, NoneV))))
  ELSE IF name = "size_of_val" THEN
    OkV(SomeV(Assign(span, call_data.destination, SizeOf(substs, SomeV(call_data.args[1])))))
  ELSE IF name = "type_name" THEN
    LET tp_ty == substs
        ty_name == [constval |-> "Str", of |-> tp_ty]
        name_op == Constant(span, mk_static_str, [literal |-> "Value", value |-> ty_name])
    IN
    OkV(SomeV(Assign(span, call_data.destination, Use(name_op))))
  ELSE OkV(NoneV)

\* lower_intrinsic_in_basic_block(tcx, mir, bb): the Mir it leaves, or the abort
lower_intrinsic_in_basic_block(blocks, bb) ==
  LET basic_block == blocks[bb] IN
  IF basic_block.terminator.term # "Call"
    THEN Abort("expected Call terminator to lower intrinsic")
  ELSE
    LET call_data == basic_block.terminator.data
        targets == basic_block.terminator.targets
    IN
    IF ~(call_data.func.operand = "Constant" /\ call_data.func.literal.literal = "Item")
      THEN Abort("could not get literal item to lower intrinsic")
    ELSE
      LET def_id == call_data.func.literal.def_id
          span == call_data.func.span
          fty == call_data.func.ty
          substs == call_data.func.literal.substs
          ret_ty == IF fty.output.some THEN fty.output.val ELSE mk_nil
          name == def_id
          pushed == lowered_statement(name, span, call_data, substs, ret_ty)
      IN
      IF pushed.tag = "Abort" THEN pushed
      ELSE
        LET statements == IF pushed.val.some
                          THEN Append(basic_block.statements, pushed.val.val)
                          ELSE basic_block.statements
        IN
        OkV([blocks EXCEPT ![bb] = [statements |-> statements,
                                    terminator |-> Goto(targets[1])]])

\* run_on_mir(mir): the blocks that end in an intrinsic call are collected
\* first and then lowered one after the other, in the order of the blocks.
RECURSIVE lower_from(_, _, _)
lower_from(blocks, bbs, i) ==
  IF i > Len(blocks) THEN OkV(blocks)
  ELSE IF i \in bbs THEN
    LET lowered == lower_intrinsic_in_basic_block(blocks, i) IN
    IF lowered.tag = "Abort" THEN lowered ELSE lower_from(lowered.val, bbs, i + 1)
  ELSE lower_from(blocks, bbs, i + 1)

run_on_mir(blocks) ==
  LET bbs == {i \in DOMAIN blocks :
                /\ blocks[i].terminator.term = "Call"
                /\ is_intrinsic_call(blocks[i].terminator.data)}
  IN lower_from(blocks, bbs, 1)

\* The Mirs the pass is given: type-checked blocks that end in a Goto, a Return,
\* a call of one of the intrinsics the pass names, a call of another intrinsic
\* (ctpop), a call of an ordinary function, or a call through a pointer.
FnConstant(abi, name, output) ==
  Constant("call_span", TyBareFn(abi, output), LiteralItem(name, "u32"))
CallDatas ==
  {CallData(FnConstant("RustIntrinsic", "transmute", SomeV("f32")), <<Consume("x")>>, "y"),
   CallData(FnConstant("RustIntrinsic", "move_val_init", NoneV),
            <<Consume("ptr"), Consume("x")>>, "y"),
   CallData(FnConstant("RustIntrinsic", "size_of", SomeV("usize")), <<>>, "x"),
   CallData(FnConstant("RustIntrinsic", "size_of_val", SomeV("usize")), <<Consume("x")>>, "y"),
   CallData(FnConstant("RustIntrinsic", "type_name", SomeV(mk_static_str)), <<>>, "x"),
   CallData(FnConstant("RustIntrinsic", "ctpop", SomeV("u32")), <<Consume("x")>>, "y"),
   CallData(FnConstant("Rust", "foo", SomeV("u32")), <<Consume("x")>>, "y"),
   CallData(Consume("ptr"), <<Consume("x")>>, "y")}
BasicBlocks ==
  LET targets == 1..MaxBlocks
      terminators ==
        {Goto(t) : t \in targets} \cup {Return}
          \cup {Call(data, <<t, 1>>) : data \in CallDatas, t \in targets}
      statements == {<<>>, <<Assign("stmt_span", "x", Use(Consume("y")))>>}
  IN [statements : statements, terminator : terminators]
Mirs == UNION {[1..n -> BasicBlocks] : n \in 1..MaxBlocks}

\* The pass runs once on the Mir; an abort of the compiler delivers no Mir.
RunOnMir ==
  /\ Idle
  /\ LET r == run_on_mir(mir) IN
       /\ mir' = IF r.tag = "Ok" THEN r.val ELSE mir
       /\ last' = [op |-> "run_on_mir", pre |-> mir, result |-> IF r.tag = "Ok" THEN Ok ELSE r]
  /\ effects' = <<>>
  /\ UNCHANGED <<machine, can_access_statics, engine, sites, alloc_map>>

\* ---------------------------------------------------------------- the engine
\* The hook has returned; the engine takes its result and goes on.
Resume ==
  /\ ~Idle
  /\ last' = NoCall
  /\ effects' = <<>>
  /\ UNCHANGED <<mir, machine, can_access_statics, engine, sites, alloc_map>>

\* ---------------------------------------------------------------- specifications
InitMachine(limits) ==
  /\ const_eval_limit \in limits
  /\ steps_remaining = new(const_eval_limit)
  /\ history = <<>>
  /\ last = NoCall
  /\ effects = <<>>

InitEngine(frames) ==
  /\ cache = [g \in GlobalIds |-> NoneV]
  /\ places = [d \in Dests |-> "uninit"]
  /\ cur_block = "bb0"
  /\ locals \in frames
  /\ sites = [g \in GlobalIds |-> NoSite]
  /\ alloc_map = NoAllocations
  /\ mir = <<>>

NoLocals == {[o \in Operands |-> Dead]}

\* A machine constructed with any limit, driven terminator by terminator.
InitBudget ==
  /\ InitMachine(0..MaxLimit)
  /\ InitEngine(NoLocals)
  /\ can_access_statics = FALSE

NextBudget == BeforeTerminator \/ Resume

SpecBudget == InitBudget /\ [][NextBudget]_vars

\* Accesses to globals under either memory-extra configuration.
InitGlobals ==
  /\ InitMachine({0})
  /\ InitEngine(NoLocals)
  /\ can_access_statics \in BOOLEAN

NextGlobals == BeforeAccessGlobal \/ Resume

SpecGlobals == InitGlobals /\ [][NextGlobals]_vars

\* Calls routed through find_mir_or_eval_fn, in one evaluation.
InitCalls ==
  /\ InitMachine({0})
  /\ InitEngine(NoLocals)
  /\ can_access_statics = FALSE

NextCalls == FindMirOrEvalFn \/ Resume

SpecCalls == InitCalls /\ [][NextCalls]_vars

\* Intrinsic calls, in one evaluation.
NextIntrinsics == CallIntrinsic \/ Resume

SpecIntrinsics == InitCalls /\ [][NextIntrinsics]_vars

\* Pointer operations and heap allocation requests, between terminators, on a
\* machine with any limit, either configuration and some memory.
SomeMemory ==
  {NoAllocations,
   [a \in AllocIds |-> IF a = 1 THEN SomeV([mutability |-> "Mut"]) ELSE NoneV],
   [a \in AllocIds |-> IF a <= 2 THEN SomeV([mutability |-> "Not"]) ELSE NoneV]}

InitPointers ==
  /\ InitMachine(0..MaxLimit)
  /\ cache = [g \in GlobalIds |-> NoneV]
  /\ places = [d \in Dests |-> "uninit"]
  /\ cur_block = "bb0"
  /\ locals \in NoLocals
  /\ sites = [g \in GlobalIds |-> NoSite]
  /\ alloc_map \in SomeMemory
  /\ mir = <<>>
  /\ can_access_statics \in BOOLEAN

NextPointers == BeforeTerminator \/ PtrToInt \/ BinaryPtrOp \/ BoxAlloc \/ Resume

SpecPointers == InitPointers /\ [][NextPointers]_vars

\* The allocation map of one evaluation, filled and read through the adapter.
NextAllocMap == Insert \/ Remove \/ GetOr \/ GetMutOr \/ Resume

SpecAllocMap == InitCalls /\ [][NextAllocMap]_vars

\* Every hook of the machine, in any order, on a machine with any limit.  The
\* call hooks are given one callee of each kind.
FewInstances ==
  {[def |-> Item("const_fn")], [def |-> Item("core::panicking::panic")],
   [def |-> Item("extern_fn")], [def |-> ReifyShim("tracked_fn")]}
FewIntrinsics == {[def |-> Intrinsic("size_of")], [def |-> Intrinsic("atomic_load")]}
FewArgLists == {args \in ArgLists : \A i \in DOMAIN args : args[i] \in {Unit, Ref("alloc1")}}
FewRets == {NoneV, SomeV([dest |-> "_1", block |-> "bb1"])}
FewEnvs == {env \in Envs : env.computed # OkV("v2")}

InitHooks ==
  /\ InitMachine(0..MaxLimit)
  /\ cache = [g \in GlobalIds |-> NoneV]
  /\ places = [d \in Dests |-> "uninit"]
  /\ cur_block = "bb0"
  /\ locals = [o \in Operands |-> IF o = "_3" THEN Int(10) ELSE Dead]
  /\ sites = [g \in GlobalIds |-> NoSite]
  /\ alloc_map = NoAllocations
  /\ mir = <<>>
  /\ can_access_statics = FALSE

NextHooks ==
  \/ BeforeTerminator
  \/ Calls(FewInstances, FewArgLists, FewRets, FewEnvs)
  \/ IntrinsicCalls(FewIntrinsics, FewArgLists, FewRets, FewEnvs)
  \/ AssertPanic
  \/ BeforeAccessGlobal
  \/ PtrToInt
  \/ BinaryPtrOp
  \/ BoxAlloc
  \/ InitFrameExtra
  \/ InitAllocationExtra
  \/ Resume

SpecHooks == InitHooks /\ [][NextHooks]_vars

\* The lowering pass, run on any Mir of up to MaxBlocks blocks.
InitLower ==
  /\ InitMachine({0})
  /\ cache = [g \in GlobalIds |-> NoneV]
  /\ places = [d \in Dests |-> "uninit"]
  /\ cur_block = "bb0"
  /\ locals \in NoLocals
  /\ sites = [g \in GlobalIds |-> NoSite]
  /\ alloc_map = NoAllocations
  /\ can_access_statics = FALSE
  /\ mir \in Mirs


SpecLower == InitLower /\ [][RunOnMir]_vars

\* The call sites of memoizable const fns in one run.
NextSites == CallSite \/ Resume

SpecSites == InitCalls /\ [][NextSites]_vars

\* Failed assertions, in frames whose locals hold anything.
InitAssert ==
  /\ InitMachine({0})
  /\ InitEngine([Operands -> LocalStates])
  /\ can_access_statics = FALSE

NextAssert == AssertPanic \/ Resume

SpecAssert == InitAssert /\ [][NextAssert]_vars

\* ---------------------------------------------------------------- step budget: claims
IsStepLimit(r) == r = Err(StepLimitReached)

\* C1: on a machine constructed with step limit N > 0, the first N-1 calls of
\* before_terminator succeed and the N-th fails with StepLimitReached, so an engine
\* that stops at the first error stops at the N-th terminator and not before.
C1_StepLimitAtNth ==
  const_eval_limit > 0 =>
    \A k \in 1..Len(history) :
      /\ k < const_eval_limit => history[k] = Ok
      /\ k = const_eval_limit => IsStepLimit(history[k])

C1_Witness ==
  /\ const_eval_limit > 1
  /\ Len(history) = const_eval_limit
  /\ IsStepLimit(history[const_eval_limit])
  /\ \A k \in 1..(const_eval_limit - 1) : history[k] = Ok

\* C7: StepLimitReached is returned at most once by one machine: after a call
\* has failed with it, every later before_terminator call succeeds and
\* steps_remaining stays 0.
C7_StepLimitOnce ==
  \A j \in 1..Len(history) :
    IsStepLimit(history[j]) =>
      /\ steps_remaining = 0
      /\ \A k \in (j + 1)..Len(history) : history[k] = Ok

C7_Witness ==
  \E j \in 1..Len(history) :
    /\ IsStepLimit(history[j])
    /\ j + 2 <= Len(history)
    /\ history[j + 1] = Ok /\ history[j + 2] = Ok
    /\ steps_remaining = 0

\* C12: a machine constructed with step limit 0 is unbounded: every
\* before_terminator call succeeds, however many are made, and steps_remaining
\* stays 0.
C12_ZeroIsUnbounded ==
  const_eval_limit = 0 =>
    /\ steps_remaining = 0
    /\ \A k \in 1..Len(history) : history[k] = Ok

C12_Witness ==
  /\ const_eval_limit = 0
  /\ Len(history) = MaxCalls
  /\ \A k \in 1..Len(history) : history[k] = Ok
  /\ steps_remaining = 0

\* ---------------------------------------------------------------- global access: claims
IsAccess == last.op = "before_access_global"

\* C2: a write access to a global never succeeds, whatever the allocation, the
\* static_def_id and can_access_statics: WriteToReadOnly(alloc_id) when the
\* allocation's mutability is Not, ModifiedGlobal otherwise.
C2_WritesRejected ==
  (IsAccess /\ last.is_write) =>
    last.result = IF last.allocation.mutability = "Not"
                  THEN Err(WriteToReadOnly(last.alloc_id))
                  ELSE Err(ModifiedGlobal)

C2_Witness ==
  /\ IsAccess /\ last.is_write /\ can_access_statics
  /\ last.allocation.mutability = "Mut" /\ last.static_def_id.some
  /\ last.result = Err(ModifiedGlobal)

\* C3: a read of a named static fails with ConstAccessesStatic when
\* can_access_statics is false and succeeds when it is true; a read of an
\* anonymous immutable global succeeds under both settings.
C3_StaticReadGating ==
  (IsAccess /\ ~last.is_write) =>
    /\ (last.static_def_id.some /\ ~can_access_statics) => last.result = Err(ConstAccessesStatic)
    /\ (last.static_def_id.some /\ can_access_statics) => last.result = Ok
    /\ (~last.static_def_id.some /\ last.allocation.mutability = "Not") => last.result = Ok

C3_Witness ==
  /\ IsAccess /\ ~last.is_write /\ ~can_access_statics
  /\ last.static_def_id.some
  /\ last.result = Err(ConstAccessesStatic)

\* C18: when can_access_statics is false, a read of an allocation whose
\* mutability is not Not never succeeds: for a named static the result is
\* ConstAccessesStatic, for an anonymous global the internal assertion aborts
\* (neither Ok nor a returned error).
C18_NoReadOfMutable ==
  (IsAccess /\ ~last.is_write /\ ~can_access_statics /\ last.allocation.mutability # "Not") =>
    /\ last.result # Ok
    /\ last.static_def_id.some => last.result = Err(ConstAccessesStatic)
    /\ ~last.static_def_id.some =>
         last.result = Abort("assert_eq!(allocation.mutability, Mutability::Not)")

C18_Witness ==
  /\ IsAccess /\ ~last.is_write /\ ~can_access_statics
  /\ last.allocation.mutability = "Mut" /\ ~last.static_def_id.some
  /\ last.result.tag = "Abort"

\* ---------------------------------------------------------------- call router: claims
IsCall == last.op = "find_mir_or_eval_fn"
Callee == last.instance.def
IsItem == Callee.kind = "Item"
IsConstItem == IsItem /\ is_const_fn_raw(Callee.def_id)
IsPanicEntry == SomeV(Callee.def_id) = panic_fn \/ SomeV(Callee.def_id) = begin_panic_fn
AllZst(args) == \A i \in DOMAIN args : args[i].layout.is_zst
Requested(op) == \E i \in DOMAIN effects : effects[i].op = op
EngineNow == [cache |-> cache, places |-> places, cur_block |-> cur_block]
Handled == last.result = OkV(NoneV)
BodyReturned == last.result.tag = "Ok" /\ last.result.val.some
ErrorReturned == last.result.tag = "Err"

\* C4: in a call of find_mir_or_eval_fn the cached evaluation (const_eval_raw) is
\* requested only when the callee is an Item const fn that does not require a
\* caller location, every argument is zero-sized and there is a return
\* destination; the key requested is (callee instance, promoted = None).
C4_MemoOnlyWhenPure ==
  IsCall =>
    \A i \in DOMAIN effects :
      effects[i].op = "const_eval_raw" =>
        /\ IsConstItem
        /\ ~requires_caller_location(Callee)
        /\ AllZst(last.args)
        /\ last.ret.some
        /\ effects[i].gid = [instance |-> last.instance, promoted |-> NoneV]

C4_Witness ==
  /\ IsCall /\ Requested("const_eval_raw")
  /\ Len(last.args) = 2 /\ AllZst(last.args)
  /\ Handled

\* C5 as stated: a call of an Item that is neither a const fn nor a panic entry
\* point fails with NeedsRfc("calling non-const function <name>").
C5_NonConstIsNeedsRfc ==
  (IsCall /\ IsItem /\ ~IsConstItem /\ ~IsPanicEntry) =>
    last.result = Err(NeedsRfc("calling non-const function", display(last.instance)))

\* C5, amended: a call of an Item that is neither a const fn nor a panic entry
\* point fails with an Unsupported error (throw_unsup_format!) whose text is
\* "calling non-const function <instance>"; it is not the NeedsRfc error that
\* extern calls produce.
C5_NonConstIsUnsupported ==
  (IsCall /\ IsItem /\ ~IsConstItem /\ ~IsPanicEntry) =>
    /\ last.result = Err(Unsupported("calling non-const function", display(last.instance)))
    /\ last.result.err.info # "NeedsRfc"

C5_Witness ==
  /\ IsCall /\ last.instance = [def |-> Item("tracked_fn")]
  /\ Len(last.args) = 1
  /\ last.result.tag = "Err" /\ last.result.err.info = "Unsupported"

\* C6: a call that find_mir_or_eval_fn routes to hook_panic_fn for panic_fn or
\* begin_panic_fn fails with Panic carrying the contents of its single string
\* argument and the closest untracked caller location; with zero or several
\* arguments the internal assertion fires and nothing is returned; on any other
\* callee hook_panic_fn returns Ok and changes nothing, whatever the arguments.
HasString(op) == op.ptr.some /\ op.ptr.val \in DOMAIN StrMemory
CallerLocation == location_triple_for_span(find_closest_untracked_caller_location(last.pre))

C6_PanicInterception ==
  (IsCall /\ last.hook.some) =>
    /\ (IsPanicEntry /\ Len(last.args) = 1 /\ HasString(last.args[1])) =>
         /\ last.result = Err(Panic(StrMemory[last.args[1].ptr.val], CallerLocation))
         /\ last.hook.val = last.result
    /\ (IsPanicEntry /\ Len(last.args) # 1) =>
         /\ last.result.tag = "Abort"
         /\ last.hook.val.tag = "Abort"
    /\ ~IsPanicEntry =>
         /\ last.hook.val = Ok
         /\ EngineNow = last.pre
         /\ effects = <<>>

C6_Witness ==
  /\ IsCall /\ last.instance = [def |-> Item("std::panicking::begin_panic")]
  /\ Len(last.args) = 1 /\ HasString(last.args[1])
  /\ last.pre.cur_block = "bb2"
  /\ last.result.tag = "Err" /\ last.result.err.info = "Panic"
  /\ last.result.err.msg = "boom" /\ last.result.err.line = 30

\* C8 as stated: for every callee that requires a caller location the router
\* makes no memoized evaluation and goes on to body resolution (load_mir).
C8_TrackedGoesToLoadMir ==
  (IsCall /\ requires_caller_location(Callee)) =>
    /\ ~Requested("const_eval_raw")
    /\ Requested("load_mir")

\* C8, amended: for every callee that requires a caller location the router
\* makes no memoized evaluation; it goes on to body resolution (load_mir) exactly
\* when the callee is not an Item or is a const fn.  A non-const Item is tested
\* first: it ends in the panic interception or the non-const rejection and its
\* body is never resolved.
C8_TrackedNeverMemoized ==
  (IsCall /\ requires_caller_location(Callee)) =>
    /\ ~Requested("const_eval_raw")
    /\ Requested("load_mir") <=> (~IsItem \/ IsConstItem)
    /\ (IsItem /\ ~IsConstItem) => (last.hook.some /\ ~BodyReturned /\ ~Handled)

C8_Witness ==
  /\ IsCall /\ last.instance = [def |-> Item("tracked_const_fn")]
  /\ AllZst(last.args) /\ last.ret.some
  /\ effects = <<[op |-> "load_mir", def |-> Callee]>>
  /\ BodyReturned

\* C10: when the cached evaluation of a call succeeds the router next copies
\* the cached result to the return destination; a call is handled (None) exactly
\* when the evaluation, the copy and the jump all succeed: then the cached
\* result is in the return destination, control is at the call's successor
\* block, the three operations were requested in this order and no body was
\* resolved.  Every call that returns gives exactly one of: handled (None), a
\* body, an error; a call for which a body is returned has not been evaluated
\* through the cache.
C10_MemoizedOrBodyOrError ==
  IsCall =>
    /\ (Requested("const_eval_raw") /\ cache[GlobalId(last.instance)].val.tag = "Ok") =>
         /\ Len(effects) >= 2
         /\ effects[2] = [op |-> "copy_op", src |-> cache[GlobalId(last.instance)].val.val,
                          dest |-> last.ret.val.dest]
         /\ (Len(effects) = 2) => ErrorReturned
    /\ last.result.tag # "Abort" =>
         /\ Handled \/ BodyReturned \/ ErrorReturned
         /\ ~(Handled /\ BodyReturned) /\ ~(Handled /\ ErrorReturned) /\ ~(BodyReturned /\ ErrorReturned)
    /\ Handled <=>
         /\ Len(effects) = 3
         /\ effects[1] = [op |-> "const_eval_raw", gid |-> GlobalId(last.instance)]
         /\ effects[2].op = "copy_op"
         /\ effects[3].op = "return_to_block"
    /\ Handled =>
         LET cached == cache[GlobalId(last.instance)].val IN
         /\ cached.tag = "Ok"
         /\ effects[2] = [op |-> "copy_op", src |-> cached.val, dest |-> last.ret.val.dest]
         /\ effects[3] = [op |-> "return_to_block", target |-> SomeV(last.ret.val.block)]
         /\ places[last.ret.val.dest] = cached.val
         /\ cur_block = last.ret.val.block
    /\ BodyReturned =>
         /\ ~Requested("const_eval_raw") /\ ~Requested("copy_op") /\ ~Requested("return_to_block")
         /\ EngineNow = last.pre

C10_Witness ==
  /\ IsCall /\ Handled
  /\ last.pre.cache[GlobalId(last.instance)].some
  /\ last.pre.places[last.ret.val.dest] # places[last.ret.val.dest]
  /\ last.pre.cur_block # cur_block

\* C11: when find_mir_or_eval_fn resolves the body (load_mir): a NoMirFor(did)
\* failure is returned as NeedsRfc("calling extern function <path of did>"),
\* every other failure of load_mir is returned unchanged, and when load_mir
\* succeeds the router returns that body.
C11_LoadMirOutcome ==
  (IsCall /\ Requested("load_mir")) =>
    LET loaded == load_mir(Callee) IN
    /\ (IsErr(loaded) /\ loaded.err.info = "NoMirFor") =>
         last.result = Err(NeedsRfc("calling extern function", def_path_str(loaded.err.did)))
    /\ (IsErr(loaded) /\ loaded.err.info # "NoMirFor") => last.result = loaded
    /\ ~IsErr(loaded) => last.result = OkV(SomeV(loaded.val))

C11_Witness ==
  /\ IsCall /\ last.instance = [def |-> ReifyShim("extern_fn")]
  /\ effects = <<[op |-> "load_mir", def |-> Callee]>>
  /\ last.result = Err(NeedsRfc("calling extern function", def_path_str("extern_fn")))

\* C13 as stated: across the call sites of one memoizable const fn in one run
\* the cached evaluation is requested at most once, and the values copied to the
\* return destinations are identical.
C13_RequestedAtMostOnce ==
  \A g \in GlobalIds :
    /\ sites[g].requests <= 1
    /\ Cardinality(sites[g].copied) <= 1

\* C13, amended: every call site of a memoizable const fn requests the cached
\* evaluation once, so two call sites request it twice; the query system
\* evaluates the function at most once in the run, on the first request, and
\* answers later requests from the stored result; the values copied to the
\* return destinations are identical, and are that stored result.
C13_EvaluatedAtMostOnce ==
  /\ IsCall => Count(effects, "const_eval_raw") = 1
  /\ \A g \in GlobalIds :
       /\ sites[g].evaluations <= 1
       /\ sites[g].requests > 0 => (sites[g].evaluations = 1 /\ cache[g].some)
       /\ Cardinality(sites[g].copied) <= 1
       /\ sites[g].copied # {} => (cache[g].val.tag = "Ok" /\ sites[g].copied = {cache[g].val.val})

C13_Witness ==
  \E g \in GlobalIds :
    /\ sites[g].requests = 2 /\ sites[g].evaluations = 1
    /\ sites[g].copied = {"v2"}
    /\ places["_1"] = "v2" /\ places["_2"] = "v2"
    /\ IsCall /\ GlobalId(last.instance) = g /\ Handled

\* C14: find_mir_or_eval_fn never returns a body, and never reports the call as
\* handled, for an Item callee that is not a const fn, panic entry points
\* included: no body is resolved and nothing is evaluated, and the call ends in
\* the interceptor's Panic, in the error of reading the panic message, in the
\* non-const rejection, or in the interceptor's argument-count assertion.
IsReadError(r) == r.tag = "Err" /\ r.err.info \in {"deref_operand", "read_str"}

C14_NoBodyForNonConst ==
  (IsCall /\ IsItem /\ ~IsConstItem) =>
    /\ ~BodyReturned /\ ~Handled
    /\ last.result.tag # "Ok"
    /\ effects = <<>>
    /\ EngineNow = last.pre
    /\ ErrorReturned =>
         \/ last.result.err.info = "Panic" /\ IsPanicEntry
         \/ IsReadError(last.result) /\ IsPanicEntry
         \/ last.result = non_const_rejection(last.instance) /\ ~IsPanicEntry
    /\ ~ErrorReturned => (IsPanicEntry /\ Len(last.args) # 1)

C14_Witness ==
  /\ IsCall /\ last.instance = [def |-> Item("core::panicking::panic")]
  /\ Len(last.args) = 1 /\ HasString(last.args[1])
  /\ last.ret.some
  /\ last.result.tag = "Err" /\ last.result.err.info = "Panic"
  /\ ~Requested("load_mir")

\* ---------------------------------------------------------------- intrinsic dispatcher: claims
IsIntrinsicCall == last.op = "call_intrinsic"

\* C15: call_intrinsic succeeds exactly when emulate_intrinsic reports the
\* intrinsic as handled; when it reports it as not handled the result is
\* NeedsRfc("calling intrinsic <name>"); an error of emulate_intrinsic is the
\* result unchanged.
C15_IntrinsicDispatch ==
  IsIntrinsicCall =>
    /\ last.result = Ok <=> last.emulated = OkV(TRUE)
    /\ last.emulated = OkV(FALSE) =>
         last.result = Err(NeedsRfc("calling intrinsic", item_name(last.instance.def.def_id)))
    /\ IsErr(last.emulated) => last.result = last.emulated
    /\ last.result.tag \in {"Ok", "Err"}

C15_Witness ==
  /\ IsIntrinsicCall /\ last.instance = [def |-> Intrinsic("atomic_load")]
  /\ last.ret.some /\ Len(last.args) = 1
  /\ last.emulated = OkV(FALSE)
  /\ last.result = Err(NeedsRfc("calling intrinsic", item_name("atomic_load")))

\* ---------------------------------------------------------------- pointer and heap restrictions: claims
IsPtrOp == last.op \in {"ptr_to_int", "binary_ptr_op", "box_alloc"}

\* C16: ptr_to_int, binary_ptr_op and box_alloc fail with a NeedsRfc error on
\* every call, whatever the operands and the operator and whatever state the
\* machine is in, and leave steps_remaining and memory as they were.
C16_PointerOpsRejected ==
  IsPtrOp =>
    /\ last.result.tag = "Err"
    /\ last.result.err.info = "NeedsRfc"
    /\ last.op = "ptr_to_int" => last.result.err.text = "pointer-to-integer cast"
    /\ last.op = "binary_ptr_op" => last.result.err.text = "pointer arithmetic or comparison"
    /\ last.op = "box_alloc" => last.result.err.text = "heap allocations via box keyword"
    /\ Ecx = last.pre

C16_Witness ==
  /\ last.op = "binary_ptr_op" /\ last.bin_op = "Eq"
  /\ last.left = last.right /\ last.left.ptr.some
  /\ const_eval_limit > 2 /\ steps_remaining = const_eval_limit - 2
  /\ alloc_map[1].some
  /\ last.result.tag = "Err" /\ last.result.err.info = "NeedsRfc"

\* ---------------------------------------------------------------- allocation map: claims
\* C19: get_or never adds, removes or changes an entry: for a present key it
\* returns the stored value without invoking the vacant callback; for an absent
\* key it invokes the callback once, returns the callback's error if it fails
\* and aborts if it succeeds.  get_mut_or on an absent key inserts the
\* callback's value and returns it, and leaves the map unchanged when the
\* callback fails.
C19_GetOrNeverExtends ==
  /\ last.op = "get_or" =>
       /\ alloc_map = last.pre
       /\ last.pre[last.k].some =>
            (last.result = [tag |-> "Ok", val |-> last.pre[last.k].val] /\ last.invoked = 0)
       /\ ~last.pre[last.k].some =>
            /\ last.invoked = 1
            /\ last.vacant.tag = "Err" => last.result = last.vacant
            /\ last.vacant.tag = "Ok" => last.result.tag = "Abort"
  /\ (last.op = "get_mut_or" /\ ~last.pre[last.k].some) =>
       /\ last.invoked = 1
       /\ last.vacant.tag = "Ok" =>
            /\ alloc_map = [last.pre EXCEPT ![last.k] = SomeV(last.vacant.val)]
            /\ last.result = [tag |-> "Ok", val |-> last.vacant.val]
       /\ last.vacant.tag = "Err" => (alloc_map = last.pre /\ last.result = last.vacant)

C19_Witness ==
  /\ last.op = "get_or" /\ ~last.pre[last.k].some
  /\ \E a \in AllocIds : last.pre[a].some
  /\ last.vacant.tag = "Ok"
  /\ last.result.tag = "Abort" /\ last.invoked = 1
  /\ alloc_map = last.pre

\* ---------------------------------------------------------------- all hooks: claims
\* C20: over any sequence of hook calls steps_remaining never increases and
\* never goes below 0; a before_terminator call lowers it by exactly 1 when it
\* is positive and leaves it at 0 otherwise; no other hook changes it
\* (find_mir_or_eval_fn, call_intrinsic, assert_panic, before_access_global,
\* ptr_to_int, binary_ptr_op, box_alloc, init_frame_extra,
\* init_allocation_extra).
C20_StepsOnlyGoDown ==
  [][/\ steps_remaining' <= steps_remaining
     /\ steps_remaining' \in 0..const_eval_limit
     /\ last'.op = "before_terminator" =>
          steps_remaining' = IF steps_remaining > 0 THEN steps_remaining - 1 ELSE 0
     /\ last'.op # "before_terminator" => steps_remaining' = steps_remaining]_vars

C20_Witness ==
  /\ last.op = "box_alloc"
  /\ const_eval_limit > 3 /\ steps_remaining = const_eval_limit - 3
  /\ last.pre.steps_remaining = steps_remaining
  /\ cache[GlobalId([def |-> Item("const_fn")])].some
  /\ places["_1"] = "v1"

\* ---------------------------------------------------------------- assertion materializer: claims
IsAssert == last.op = "assert_panic"
IsAssertFailure(r) == r.tag = "Err" /\ r.err.info = "AssertFailure"
HoldsInt(op) == locals[op].state = "int"

\* C9 as stated: assert_panic never succeeds and its result is always an
\* AssertFailure: with the concrete len and index for BoundsCheck, with the
\* same kind and payload for the other kinds.
C9_AlwaysAssertFailure ==
  IsAssert =>
    /\ last.result.tag # "Ok"
    /\ IsAssertFailure(last.result)
    /\ last.msg.kind # "BoundsCheck" => last.result.err.assert = last.msg

\* C9, amended: assert_panic never returns success.  For Overflow, OverflowNeg,
\* DivisionByZero, RemainderByZero, ResumedAfterReturn and ResumedAfterPanic the
\* result is always AssertFailure with the same kind and payload.  For
\* BoundsCheck the result is AssertFailure(BoundsCheck { len, index }) with the
\* machine-usize values of the operands when both evaluate; when one does not,
\* the result is that operand's evaluation error (or the abort of expect), the
\* first failing operand in the order len, index deciding, and no AssertFailure.
C9_AssertFailureWhenEvaluated ==
  IsAssert =>
    /\ last.result.tag # "Ok"
    /\ last.msg.kind # "BoundsCheck" => last.result = Err(AssertFailure(last.msg))
    /\ last.msg.kind = "BoundsCheck" =>
         /\ (HoldsInt(last.msg.len) /\ HoldsInt(last.msg.index)) =>
              last.result = Err(AssertFailure(BoundsCheck(locals[last.msg.len].bits,
                                                          locals[last.msg.index].bits)))
         /\ ~HoldsInt(last.msg.len) =>
              last.result = eval_to_usize(locals, last.msg.len, "can't eval len")
         /\ (HoldsInt(last.msg.len) /\ ~HoldsInt(last.msg.index)) =>
              last.result = eval_to_usize(locals, last.msg.index, "can't eval index")
         /\ IsAssertFailure(last.result) <=> (HoldsInt(last.msg.len) /\ HoldsInt(last.msg.index))

C9_Witness ==
  /\ IsAssert
  /\ last.msg = BoundsCheck("_3", "_4")
  /\ locals["_3"] = Int(10) /\ locals["_4"] = Int(15)
  /\ last.result = Err(AssertFailure(BoundsCheck(10, 15)))

\* The operand of a BoundsCheck whose evaluation decides the result: len, or
\* index when len evaluates.
FailingOperand == IF HoldsInt(last.msg.len) THEN last.msg.index ELSE last.msg.len
EvalFails == ~(HoldsInt(last.msg.len) /\ HoldsInt(last.msg.index))

\* C17 as stated: in assert_panic on a BoundsCheck, any failure to evaluate len
\* or index (in eval_operand, read_immediate, to_scalar or to_machine_usize)
\* aborts evaluation and is never returned to the caller as an error.
C17_EveryFailureIsFatal ==
  (IsAssert /\ last.msg.kind = "BoundsCheck" /\ EvalFails) =>
    last.result.tag = "Abort"

\* C17, amended: in assert_panic on a BoundsCheck, a failure of read_immediate
\* on len or index aborts evaluation (expect: "can't eval len", "can't eval
\* index"); a failure of eval_operand, to_scalar or to_machine_usize is
\* returned to the caller as that evaluation error.
C17_OnlyReadImmediateIsFatal ==
  (IsAssert /\ last.msg.kind = "BoundsCheck" /\ EvalFails) =>
    LET held == locals[FailingOperand]
        what == IF HoldsInt(last.msg.len) THEN "can't eval index" ELSE "can't eval len"
    IN
    /\ last.result.tag = "Abort" <=> held = Unreadable
    /\ held = Unreadable => last.result = Abort(what)
    /\ held = Dead => last.result = eval_operand(locals, FailingOperand)
    /\ held = Uninit => last.result = to_scalar(held)
    /\ held = PointerValue => last.result = to_machine_usize(held)
    /\ held # Unreadable => last.result.tag = "Err"

C17_Witness ==
  /\ IsAssert /\ last.msg = BoundsCheck("_3", "_4")
  /\ locals["_3"] = Int(10) /\ locals["_4"] = Unreadable
  /\ last.result = Abort("can't eval index")

\* ---------------------------------------------------------------- lowering pass: claims
IsLowered == last.op = "run_on_mir" /\ last.result = Ok
EndsInIntrinsicCall(block) ==
  block.terminator.term = "Call" /\ is_intrinsic_call(block.terminator.data)

\* C21: the pass rewrites each intrinsic call into an equivalent primitive
\* operation: every block whose Call terminator it replaces by a Goto to the
\* call's first target has exactly one Assign statement appended, which carries
\* the call's effect; blocks that do not end in an intrinsic call are left
\* unchanged; no intrinsic call is removed without such a statement.
C21_EveryLoweredCallAssigns ==
  IsLowered =>
    /\ Len(mir) = Len(last.pre)
    /\ \A i \in DOMAIN mir :
         LET before == last.pre[i]
             after == mir[i]
             n == Len(before.statements)
         IN
         IF EndsInIntrinsicCall(before) THEN
           /\ after.terminator = Goto(before.terminator.targets[1])
           /\ Len(after.statements) = n + 1
           /\ SubSeq(after.statements, 1, n) = before.statements
           /\ after.statements[n + 1].kind = "Assign"
         ELSE after = before

\* The failing case: a block ending in a call of an intrinsic the pass has no
\* branch for loses the call and gains no statement.
C21_Witness ==
  /\ IsLowered
  /\ \E i \in DOMAIN mir :
       /\ EndsInIntrinsicCall(last.pre[i])
       /\ last.pre[i].terminator.data.func.literal.def_id = "ctpop"
       /\ mir[i].terminator = Goto(last.pre[i].terminator.targets[1])
       /\ mir[i].statements = last.pre[i].statements

====
